---- MODULE Spec2Model ----
(***************************************************************************)
(* A model of the write path and crash recovery of db-ngn-memtable:        *)
(*   - MemTable      (src/src/mem_table.rs)    the sorted in-memory table  *)
(*   - WAL           (src/src/wal.rs)          the append-only log writer  *)
(*                                             and the recovery merge      *)
(*   - WALIterator   (src/src/wal_iterator.rs) the sequential log decoder  *)
(*                                                                         *)
(* Byte strings are sequences of numbers in 0..255.  An Option<T> is a     *)
(* sequence of length 0 (None) or 1 (Some(x) = <<x>>).  Sequence indices   *)
(* are 1-based, so a Rust index i is i + 1 here.                            *)
(***************************************************************************)
EXTENDS Integers, Sequences, FiniteSets, TLC

VARIABLES
    table,      \* MemTable: [entries |-> Seq(MemTableEntry), size |-> usize]
    calls,      \* history: the set/delete calls applied to `table`, in call order
    ret,        \* what the last call on `table` returned
    dir,        \* the log directory: path |-> content (bytes) of each log file
    clock,      \* SystemTime::now() in microseconds since the epoch
    wal,        \* Option<WAL>: the open log handle [path, file (BufWriter's buffer)]
    appended,   \* history: the records appended through `wal`, in call order
    flushed,    \* history: Len(appended) at the last successful flush
    crashed,    \* the process that owned `wal` has crashed
    decoded,    \* Option<Seq(WALEntry)>: what the last WALIterator over the log yielded
    pc,         \* WAL::from_dir: where the call is, or how it ended
    wal_files,  \* WAL::from_dir: the sorted paths of the old log files
    file_idx,   \* WAL::from_dir: the index in wal_files of the file in hand
    reader,     \* WAL::from_dir: Option<offset> of the WALIterator over that file
    skipped,    \* history: the old files WAL::from_path failed to open
    failed,     \* history: the I/O operation that failed last in the from_dir call
    crash0,     \* history: Option of what the from_dir call cut short by a crash had found
    runs,       \* history: the number of from_dir calls so far
    prev,       \* history: Option of what the previous from_dir call returned
    dir0        \* history: the directory as the running from_dir call found it

vars == <<table, calls, ret, dir, clock, wal, appended, flushed, crashed, decoded,
          pc, wal_files, file_idx, reader, skipped, failed, crash0, runs, prev, dir0>>

tableVars == <<table, calls, ret>>

logVars == <<dir, clock, wal, appended, flushed, crashed, decoded>>

recVars == <<pc, wal_files, file_idx, reader, skipped, failed, crash0, runs, prev, dir0>>

-----------------------------------------------------------------------------
(* Option<T>                                                               *)

None == <<>>

Some(x) == <<x>>

is_some(o) == Len(o) = 1

unwrap(o) == o[1]

-----------------------------------------------------------------------------
(* Bounds and input alphabets                                              *)

\* Longest sequence of set/delete calls applied to one MemTable.
MaxCalls == 3

\* Keys: the empty key (a proper prefix of the others) and two keys whose
\* byte-wise order differs from their order by length.
Keys == { <<>>, <<1, 2>>, <<2>> }

\* A value longer than the 17 bytes a record with an empty key accounts for.
LongValue == [i \in 1..18 |-> 7]

\* Values of different lengths, the empty value included.
Values == { <<>>, LongValue }

\* The values scan is asked for: the values written and one never written.
Probes == Values \cup { <<7, 8>> }

\* Timestamps (u128); callers may pass them in any order.
Timestamps == { 1, 2 }

\* Most records held by the old log files of a directory, all files together.
MaxRecords == 3

\* The most records the old logs hold together where from_dir is cut short
\* by a crash and run again.
MaxCrashRecords == 2

\* Most from_dir calls made one after the other on a directory.
MaxRuns == 2

\* The instants at which the old log files of a directory were created.
OldInstants == { 9, 10 }

\* The number of bytes of a record that reached an old file whose last
\* write was cut short.
TornLen == 20

\* Longest sequence of records appended through one WAL handle.
MaxAppends == 2

\* The largest number the decoder's integers are followed to exactly.
Wide == 4194304

\* The clock reading when the first log of a run is created.
StartClock == 11

\* The records written to logs: set and delete, empty and non-empty keys and
\* values, the same key written more than once, a timestamp wider than one
\* byte, and a later record with a smaller timestamp than an earlier one.
LogRecords ==
    { [key |-> <<1>>, value |-> Some(<<7, 8>>), timestamp |-> 258, deleted |-> FALSE],
      [key |-> <<1>>, value |-> None,           timestamp |-> 2,   deleted |-> TRUE],
      [key |-> <<>>,  value |-> Some(<<>>),     timestamp |-> 1,   deleted |-> FALSE],
      [key |-> <<>>,  value |-> None,           timestamp |-> 258, deleted |-> TRUE] }

-----------------------------------------------------------------------------
(* Byte-wise comparison of byte strings: Ord for [u8], which              *)
(* binary_search_by_key uses to compare keys.                              *)

RECURSIVE BytesLess(_, _)
BytesLess(a, b) ==
    IF b = <<>> THEN FALSE
    ELSE IF a = <<>> THEN TRUE
    ELSE IF Head(a) # Head(b) THEN Head(a) < Head(b)
    ELSE BytesLess(Tail(a), Tail(b))

-----------------------------------------------------------------------------
(* MemTable                                                                *)

\* MemTable::new.  The usize `size` is kept modulo 2^64, a value u at or
\* above 2^63 written as the negative number u - 2^64: a subtraction that
\* wraps below 0 leaves a negative number here.
MemTableNew == [entries |-> <<>>, size |-> 0]

\* slice::binary_search_by_key over entries[lo..hi) (1-based, hi exclusive):
\* Ok(idx) when an entry with the key is found, Err(idx) with the insertion
\* point otherwise.
RECURSIVE binary_search(_, _, _, _)
binary_search(entries, key, lo, hi) ==
    IF lo >= hi THEN [ok |-> FALSE, idx |-> lo]
    ELSE LET mid == lo + ((hi - lo) \div 2)
             k   == entries[mid].key
         IN IF k = key THEN [ok |-> TRUE, idx |-> mid]
            ELSE IF BytesLess(k, key)
                 THEN binary_search(entries, key, mid + 1, hi)
                 ELSE binary_search(entries, key, lo, mid)

\* MemTable::get_index
get_index(entries, key) == binary_search(entries, key, 1, Len(entries) + 1)

\* A Vec::push in place of Vec::insert: the entry lands at the end.
VecInsert_push(s, idx, e) == Append(s, e)

\* An insert that writes over the element at idx.
VecInsert_replace(s, idx, e) ==
    IF idx <= Len(s) THEN [s EXCEPT ![idx] = e] ELSE Append(s, e)

\* Vec::insert(idx, entry)
VecInsert(s, idx, e) == SubSeq(s, 1, idx - 1) \o <<e>> \o SubSeq(s, idx, Len(s))

\* A set that inserts a second record for a key the table already holds.
MemSet_insert_again(mt, key, value, timestamp) ==
    LET entry == [key |-> key, value |-> Some(value),
                  timestamp |-> timestamp, deleted |-> FALSE]
        r == get_index(mt.entries, key)
    IN [entries |-> VecInsert(mt.entries, r.idx, entry),
        size |-> mt.size + Len(key) + Len(value) + 16 + 1]

\* MemTable::set
MemSet(mt, key, value, timestamp) ==
    LET entry == [key |-> key, value |-> Some(value),
                  timestamp |-> timestamp, deleted |-> FALSE]
        r == get_index(mt.entries, key)
    IN IF r.ok
       THEN LET cur == mt.entries[r.idx].value
                sz  == IF is_some(cur)
                       THEN IF Len(unwrap(cur)) > Len(value)
                            THEN mt.size - (Len(unwrap(cur)) - Len(value))
                            ELSE mt.size + (Len(value) - Len(unwrap(cur)))
                       ELSE mt.size
            IN [entries |-> [mt.entries EXCEPT ![r.idx] = entry], size |-> sz]
       ELSE [entries |-> VecInsert(mt.entries, r.idx, entry),
             size |-> mt.size + Len(key) + Len(value) + 16 + 1]

\* MemTable::set, line 59: `self.size -= ...` would go below 0.
MemSetUnderflows(mt, key, value) ==
    LET r == get_index(mt.entries, key)
    IN /\ r.ok
       /\ is_some(mt.entries[r.idx].value)
       /\ Len(unwrap(mt.entries[r.idx].value)) > Len(value)
       /\ mt.size >= 0
       /\ mt.size < Len(unwrap(mt.entries[r.idx].value)) - Len(value)

\* A delete that ignores keys the table does not hold.
MemDelete_skip_absent(mt, key, timestamp) ==
    LET entry == [key |-> key, value |-> None,
                  timestamp |-> timestamp, deleted |-> TRUE]
        r == get_index(mt.entries, key)
    IN IF r.ok
       THEN LET cur == mt.entries[r.idx].value
                sz  == IF is_some(cur) THEN mt.size - Len(unwrap(cur))
                       ELSE mt.size
            IN [entries |-> [mt.entries EXCEPT ![r.idx] = entry], size |-> sz]
       ELSE mt

\* MemTable::delete
MemDelete(mt, key, timestamp) ==
    LET entry == [key |-> key, value |-> None,
                  timestamp |-> timestamp, deleted |-> TRUE]
        r == get_index(mt.entries, key)
    IN IF r.ok
       THEN LET cur == mt.entries[r.idx].value
                sz  == IF is_some(cur) THEN mt.size - Len(unwrap(cur))
                       ELSE mt.size
            IN [entries |-> [mt.entries EXCEPT ![r.idx] = entry], size |-> sz]
       ELSE [entries |-> VecInsert(mt.entries, r.idx, entry),
             size |-> mt.size + Len(key) + 16 + 1]

\* MemTable::delete, line 121: `self.size -= ...` would go below 0.
MemDeleteUnderflows(mt, key) ==
    LET r == get_index(mt.entries, key)
    IN /\ r.ok
       /\ is_some(mt.entries[r.idx].value)
       /\ mt.size >= 0
       /\ mt.size < Len(unwrap(mt.entries[r.idx].value))

\* MemTable::get
MemGet(mt, key) ==
    LET r == get_index(mt.entries, key)
    IN IF r.ok THEN Some(mt.entries[r.idx]) ELSE None

\* A scan that takes a tombstone for a record with an empty value.
RECURSIVE MemScan_none_is_empty(_, _)
MemScan_none_is_empty(entries, value) ==
    IF entries = <<>> THEN None
    ELSE IF is_some(Head(entries).value)
         THEN IF value = unwrap(Head(entries).value) THEN Some(Head(entries))
              ELSE MemScan_none_is_empty(Tail(entries), value)
         ELSE IF value = <<>> THEN Some(Head(entries))
              ELSE MemScan_none_is_empty(Tail(entries), value)

\* MemTable::scan: the loop over entries.iter(), from the front.
RECURSIVE MemScan(_, _)
MemScan(entries, value) ==
    IF entries = <<>> THEN None
    ELSE IF is_some(Head(entries).value)
         THEN IF value = unwrap(Head(entries).value) THEN Some(Head(entries))
              ELSE MemScan(Tail(entries), value)
         ELSE MemScan(Tail(entries), value)

\* MemTable::len
MemLen(mt) == Len(mt.entries)

\* MemTable::size
MemSize(mt) == mt.size

-----------------------------------------------------------------------------
(* WAL: the log writer                                                     *)

\* The bytes of an integer of `width` bytes, most significant byte first.
RECURSIVE to_be_bytes(_, _)
to_be_bytes(n, width) ==
    IF width = 0 THEN <<>>
    ELSE to_be_bytes(n \div 256, width - 1) \o <<n % 256>>

\* {integer}::to_le_bytes for an integer of `width` bytes
RECURSIVE to_le_bytes(_, _)
to_le_bytes(n, width) ==
    IF width = 0 THEN <<>>
    ELSE <<n % 256>> \o to_le_bytes(n \div 256, width - 1)

\* u128::to_string: the decimal digits, as character codes
RECURSIVE to_string(_)
to_string(n) ==
    IF n < 10 THEN <<48 + n>>
    ELSE to_string(n \div 10) \o <<48 + (n % 10)>>

\* The path WAL::new gives the log created at instant t: "<t>.wal"
WalPath(t) == to_string(t) \o <<46, 119, 97, 108>>

\* An open that empties a file that exists (truncate(true)).
OpenAppend_truncate(d, path) ==
    (path :> <<>>) @@ d

\* OpenOptions::new().append(true).create(true).open(path): the file is
\* created empty if it is missing, and left as it is otherwise.
OpenAppend(d, path) ==
    IF path \in DOMAIN d THEN d ELSE (path :> <<>>) @@ d

\* WAL::from_path: the handle; its BufWriter starts with nothing buffered.
from_path(path) == [path |-> path, file |-> <<>>]

\* BufWriter::write_all: the bytes join the end of the buffer.
write_all(w, bytes) == [w EXCEPT !.file = @ \o bytes]

\* WAL::set
wal_set(w, key, value, timestamp) ==
    LET w1 == write_all(w, to_le_bytes(Len(key), 8))
        w2 == write_all(w1, to_le_bytes(0, 1))
        w3 == write_all(w2, to_le_bytes(Len(value), 8))
        w4 == write_all(w3, key)
        w5 == write_all(w4, value)
    IN write_all(w5, to_le_bytes(timestamp, 16))

\* A delete record laid out like a set record, with a value length of 0.
wal_delete_with_value_len(w, key, timestamp) ==
    LET w1 == write_all(w, to_le_bytes(Len(key), 8))
        w2 == write_all(w1, to_le_bytes(1, 1))
        w3 == write_all(w2, to_le_bytes(0, 8))
        w4 == write_all(w3, key)
    IN write_all(w4, to_le_bytes(timestamp, 16))

\* WAL::delete
wal_delete(w, key, timestamp) ==
    LET w1 == write_all(w, to_le_bytes(Len(key), 8))
        w2 == write_all(w1, to_le_bytes(1, 1))
        w3 == write_all(w2, key)
    IN write_all(w3, to_le_bytes(timestamp, 16))

\* The bytes WAL::set or WAL::delete appends for record r.
RecordEncoding(r) ==
    IF r.deleted
    THEN wal_delete(from_path(<<>>), r.key, r.timestamp).file
    ELSE wal_set(from_path(<<>>), r.key, unwrap(r.value), r.timestamp).file

\* The content of a log file to which the records rs were written and flushed.
RECURSIVE LogEncoding(_)
LogEncoding(rs) ==
    IF rs = <<>> THEN <<>>
    ELSE RecordEncoding(Head(rs)) \o LogEncoding(Tail(rs))

\* A file opened without append(true): the bytes replace its content.
FileWrite_overwrite(d, w, n) == [d EXCEPT ![w.path] = SubSeq(w.file, 1, n)]

\* The file after the BufWriter handed it the first n buffered bytes.
FileWrite(d, w, n) == [d EXCEPT ![w.path] = @ \o SubSeq(w.file, 1, n)]

\* A BufWriter that keeps the bytes it has written out.
BufDrain_keep(w, n) == w

\* The BufWriter after its first n buffered bytes were written out.
BufDrain(w, n) == [w EXCEPT !.file = SubSeq(@, n + 1, Len(@))]

-----------------------------------------------------------------------------
(* WALIterator: the log decoder                                            *)

\* usize::from_le_bytes, u128::from_le_bytes.  Numbers below Wide are exact;
\* every number from Wide up reads as Wide (no file is that long, and no
\* record written carries a timestamp that large).
RECURSIVE from_le_bytes(_)
from_le_bytes(bs) ==
    IF bs = <<>> THEN 0
    ELSE LET hi == from_le_bytes(Tail(bs))
             n  == Head(bs) + 256 * hi
         IN IF n >= Wide THEN Wide ELSE n

\* Read::read_exact of n bytes by a reader that has consumed pos bytes:
\* the bytes, or None on a short read.
read_exact(bytes, pos, n) ==
    IF pos + n <= Len(bytes) THEN Some(SubSeq(bytes, pos + 1, pos + n))
    ELSE None

\* WALIterator::read_key
read_key(bytes, pos, key_len) == read_exact(bytes, pos, key_len)

\* WALIterator::read_value
read_value(bytes, pos, value_len) == read_exact(bytes, pos, value_len)

\* A read_timestamp that yields 0 when the timestamp is cut short.
read_timestamp_zero_fill(bytes, pos) ==
    LET timestamp == read_exact(bytes, pos, 16)
    IN IF is_some(timestamp) THEN Some(from_le_bytes(unwrap(timestamp)))
       ELSE Some(0)

\* WALIterator::read_timestamp
read_timestamp(bytes, pos) ==
    LET timestamp == read_exact(bytes, pos, 16)
    IN IF is_some(timestamp) THEN Some(from_le_bytes(unwrap(timestamp)))
       ELSE None

\* WALIterator::next on a reader that has consumed pos bytes of the file:
\* the entry (None at the end of the sequence) and the reader's new offset.
WalNext(bytes, pos) ==
    LET eos == [entry |-> None, pos |-> pos]
        len_buffer == read_exact(bytes, pos, 8)
        bool_buffer == read_exact(bytes, pos + 8, 1)
    IN IF ~is_some(len_buffer) THEN eos
       ELSE IF ~is_some(bool_buffer) THEN eos
       ELSE
         LET key_len == from_le_bytes(unwrap(len_buffer))
             deleted == unwrap(bool_buffer)[1] # 0
             value_len_buffer == read_exact(bytes, pos + 9, 8)
             value_len == from_le_bytes(unwrap(value_len_buffer))
             key_pos == IF deleted THEN pos + 9 ELSE pos + 17
             key == read_key(bytes, key_pos, key_len)
             value == IF deleted THEN None
                      ELSE read_value(bytes, key_pos + key_len, value_len)
             ts_pos == IF deleted THEN key_pos + key_len
                       ELSE key_pos + key_len + value_len
             timestamp == read_timestamp(bytes, ts_pos)
         IN IF ~deleted /\ ~is_some(value_len_buffer) THEN eos
            ELSE IF ~is_some(key) THEN eos
            ELSE IF ~deleted /\ ~is_some(value) THEN eos
            ELSE IF ~is_some(timestamp) THEN eos
            ELSE [entry |-> Some([key |-> unwrap(key), value |-> value,
                                  timestamp |-> unwrap(timestamp),
                                  deleted |-> deleted]),
                  pos |-> ts_pos + 16]

\* `for entry in wal.into_iter()`: a WALIterator pulled from offset pos
\* until it reports the end of the sequence.
RECURSIVE IterCollect(_, _)
IterCollect(bytes, pos) ==
    LET r == WalNext(bytes, pos)
    IN IF is_some(r.entry)
       THEN <<unwrap(r.entry)>> \o IterCollect(bytes, r.pos)
       ELSE <<>>

-----------------------------------------------------------------------------
(* The MemTable under a caller that issues set, delete and get             *)

TableIdle ==
    /\ table = MemTableNew
    /\ calls = <<>>
    /\ ret = [op |-> "new"]

LogIdle ==
    /\ dir = <<>>
    /\ clock = 0
    /\ wal = None
    /\ appended = <<>>
    /\ flushed = 0
    /\ crashed = FALSE
    /\ decoded = None

RecoveryIdle ==
    /\ pc = "idle"
    /\ wal_files = <<>>
    /\ file_idx = 1
    /\ reader = None
    /\ skipped = {}
    /\ failed = "none"
    /\ crash0 = None
    /\ runs = 0
    /\ prev = None
    /\ dir0 = <<>>

Init == TableIdle /\ LogIdle /\ RecoveryIdle

\* MemTable::set.  Where `self.size -= ...` would go below 0 the call panics
\* in a build with overflow checks, before the entry is replaced, and wraps
\* in a build without.
Set(key, value, timestamp) ==
    /\ ret.op # "panic" /\ Len(calls) < MaxCalls
    /\ \/ /\ table' = MemSet(table, key, value, timestamp)
          /\ calls' = Append(calls, [key |-> key, value |-> Some(value),
                                     timestamp |-> timestamp, deleted |-> FALSE])
          /\ ret' = [op |-> "set"]
       \/ /\ MemSetUnderflows(table, key, value)
          /\ ret' = [op |-> "panic"]
          /\ UNCHANGED <<table, calls>>
    /\ UNCHANGED <<logVars, recVars>>

\* MemTable::delete, with the same two outcomes where the subtraction would
\* go below 0.
Delete(key, timestamp) ==
    /\ ret.op # "panic" /\ Len(calls) < MaxCalls
    /\ \/ /\ table' = MemDelete(table, key, timestamp)
          /\ calls' = Append(calls, [key |-> key, value |-> None,
                                     timestamp |-> timestamp, deleted |-> TRUE])
          /\ ret' = [op |-> "delete"]
       \/ /\ MemDeleteUnderflows(table, key)
          /\ ret' = [op |-> "panic"]
          /\ UNCHANGED <<table, calls>>
    /\ UNCHANGED <<logVars, recVars>>

Get(key) ==
    /\ ret.op # "panic"
    /\ ret' = [op |-> "get", key |-> key, entry |-> MemGet(table, key)]
    /\ UNCHANGED <<table, calls>>
    /\ UNCHANGED <<logVars, recVars>>

Scan(value) ==
    /\ ret.op # "panic"
    /\ ret' = [op |-> "scan", value |-> value, entry |-> MemScan(table.entries, value)]
    /\ UNCHANGED <<table, calls>>
    /\ UNCHANGED <<logVars, recVars>>

\* MemTable::len
CallLen ==
    /\ ret.op # "panic"
    /\ ret' = [op |-> "len", n |-> MemLen(table)]
    /\ UNCHANGED <<table, calls>>
    /\ UNCHANGED <<logVars, recVars>>

\* MemTable::size
CallSize ==
    /\ ret.op # "panic"
    /\ ret' = [op |-> "size", n |-> MemSize(table)]
    /\ UNCHANGED <<table, calls>>
    /\ UNCHANGED <<logVars, recVars>>

Next ==
    \/ \E k \in Keys, v \in Values, t \in Timestamps : Set(k, v, t)
    \/ \E k \in Keys, t \in Timestamps : Delete(k, t)
    \/ \E k \in Keys : Get(k)
    \/ \E v \in Probes : Scan(v)
    \/ CallLen
    \/ CallSize

Spec == Init /\ [][Next]_vars

-----------------------------------------------------------------------------
(* One WAL under a writer that appends and flushes, may crash at any      *)
(* moment, and a reader that decodes the file                              *)

\* WAL::new in an empty directory
WalNew ==
    /\ wal = None /\ ~crashed /\ dir = <<>>
    /\ dir' = OpenAppend(dir, WalPath(clock))
    /\ wal' = Some(from_path(WalPath(clock)))
    /\ clock' = clock + 1
    /\ decoded' = None
    /\ UNCHANGED <<appended, flushed, crashed>>
    /\ UNCHANGED <<tableVars, recVars>>

\* WAL::set
WalSet(key, value, timestamp) ==
    /\ is_some(wal) /\ Len(appended) < MaxAppends
    /\ wal' = Some(wal_set(unwrap(wal), key, value, timestamp))
    /\ appended' = Append(appended, [key |-> key, value |-> Some(value),
                                      timestamp |-> timestamp, deleted |-> FALSE])
    /\ decoded' = None
    /\ UNCHANGED <<dir, clock, flushed, crashed>>
    /\ UNCHANGED <<tableVars, recVars>>

\* WAL::delete
WalDelete(key, timestamp) ==
    /\ is_some(wal) /\ Len(appended) < MaxAppends
    /\ wal' = Some(wal_delete(unwrap(wal), key, timestamp))
    /\ appended' = Append(appended, [key |-> key, value |-> None,
                                      timestamp |-> timestamp, deleted |-> TRUE])
    /\ decoded' = None
    /\ UNCHANGED <<dir, clock, flushed, crashed>>
    /\ UNCHANGED <<tableVars, recVars>>

\* WAL::flush returning Ok: everything buffered is in the file.
WalFlush ==
    /\ is_some(wal)
    /\ dir' = FileWrite(dir, unwrap(wal), Len(unwrap(wal).file))
    /\ wal' = Some(BufDrain(unwrap(wal), Len(unwrap(wal).file)))
    /\ flushed' = Len(appended)
    /\ decoded' = None
    /\ UNCHANGED <<clock, appended, crashed>>
    /\ UNCHANGED <<tableVars, recVars>>

\* The BufWriter writes the first n buffered bytes to the file without a
\* flush call: its buffer filled up, or the process is about to die in the
\* middle of writing the buffer out.
WalSpill(n) ==
    /\ is_some(wal)
    /\ n \in 1..Len(unwrap(wal).file)
    /\ dir' = FileWrite(dir, unwrap(wal), n)
    /\ wal' = Some(BufDrain(unwrap(wal), n))
    /\ decoded' = None
    /\ UNCHANGED <<clock, appended, flushed, crashed>>
    /\ UNCHANGED <<tableVars, recVars>>

\* The process dies: the handle and whatever its BufWriter still held are
\* gone, the file keeps what reached it.
WalCrash ==
    /\ is_some(wal)
    /\ wal' = None
    /\ crashed' = TRUE
    /\ decoded' = None
    /\ UNCHANGED <<dir, clock, appended, flushed>>
    /\ UNCHANGED <<tableVars, recVars>>

\* WAL::from_path(path) and into_iter(), pulled to the end of the sequence
WalReadBack(path) ==
    /\ decoded = None
    /\ dir' = OpenAppend(dir, path)
    /\ decoded' = Some(IterCollect(dir[path], 0))
    /\ UNCHANGED <<clock, wal, appended, flushed, crashed>>
    /\ UNCHANGED <<tableVars, recVars>>

InitLog ==
    /\ TableIdle
    /\ RecoveryIdle
    /\ dir = <<>>
    /\ clock = StartClock
    /\ wal = None
    /\ appended = <<>>
    /\ flushed = 0
    /\ crashed = FALSE
    /\ decoded = None

NextLog ==
    \/ WalNew
    \/ \E r \in LogRecords :
          /\ ~r.deleted
          /\ WalSet(r.key, unwrap(r.value), r.timestamp)
    \/ \E r \in LogRecords :
          /\ r.deleted
          /\ WalDelete(r.key, r.timestamp)
    \/ WalFlush
    \/ \E n \in 1..(IF is_some(wal) THEN Len(unwrap(wal).file) ELSE 0) : WalSpill(n)
    \/ WalCrash
    \/ \E path \in DOMAIN dir : WalReadBack(path)

SpecLog == InitLog /\ [][NextLog]_vars

-----------------------------------------------------------------------------
(* WAL::from_dir: recovery of a directory of old log files                 *)

\* utils::files_with_ext(dir, "wal"): the paths of the log files in the
\* directory, in no particular order.
files_with_ext(d) == DOMAIN d

\* A sort that compares the instants in the names as numbers (shorter names
\* first).
RECURSIVE sort_shorter_first(_)
sort_shorter_first(paths) ==
    IF paths = {} THEN <<>>
    ELSE LET least == CHOOSE x \in paths : \A y \in paths :
                          \/ Len(x) < Len(y)
                          \/ Len(x) = Len(y) /\ ~BytesLess(y, x)
         IN <<least>> \o sort_shorter_first(paths \ {least})

\* Vec<PathBuf>::sort: ascending by Ord for PathBuf, which for files of one
\* directory is the byte-wise order of the file names.
RECURSIVE sort(_)
sort(paths) ==
    IF paths = {} THEN <<>>
    ELSE LET least == CHOOSE x \in paths : \A y \in paths : ~BytesLess(y, x)
         IN <<least>> \o sort(paths \ {least})

\* A remove_file that leaves the file where it is.
remove_file_keep(d, path) == d

\* std::fs::remove_file
remove_file(d, path) == [p \in (DOMAIN d) \ {path} |-> d[p]]

\* The path of the old log file in hand.
wal_file == wal_files[file_idx]

\* WAL::from_dir, lines 38-42: list and sort the old files, start an empty
\* MemTable, create the new WAL.  A second call drops what the first returned.
FromDirBegin ==
    /\ pc \in {"idle", "ok", "crashed"} /\ runs < MaxRuns
    /\ runs' = runs + 1
    /\ prev' = IF pc = "ok"
               THEN Some([table |-> table, path |-> unwrap(wal).path, dir |-> dir])
               ELSE None
    /\ dir0' = dir
    /\ wal_files' = sort(files_with_ext(dir))
    /\ table' = MemTableNew
    /\ dir' = OpenAppend(dir, WalPath(clock))
    /\ wal' = Some(from_path(WalPath(clock)))
    /\ clock' = clock + 1
    /\ pc' = "replay"
    /\ file_idx' = 1
    /\ reader' = None
    /\ skipped' = {}
    /\ failed' = "none"
    /\ UNCHANGED <<crash0, calls, ret, appended, flushed, crashed, decoded>>

\* WAL::from_dir, line 42: WAL::new fails and `?` returns the error.
FromDirCreateFails ==
    /\ pc \in {"idle", "ok", "crashed"} /\ runs < MaxRuns
    /\ runs' = runs + 1
    /\ prev' = None
    /\ dir0' = dir
    /\ wal_files' = sort(files_with_ext(dir))
    /\ table' = MemTableNew
    /\ wal' = None
    /\ pc' = "err"
    /\ file_idx' = 1
    /\ reader' = None
    /\ skipped' = {}
    /\ failed' = "create"
    /\ UNCHANGED <<dir, clock, crash0, calls, ret, appended, flushed, crashed, decoded>>

\* WAL::from_dir, lines 45-46: WAL::from_path opens the next old file and
\* into_iter opens a WALIterator at its start.
FromDirOpen ==
    /\ pc = "replay" /\ file_idx <= Len(wal_files) /\ reader = None
    /\ dir' = OpenAppend(dir, wal_file)
    /\ reader' = Some(0)
    /\ UNCHANGED <<table, clock, wal, pc, wal_files, file_idx, skipped, failed, crash0, runs, prev, dir0>>
    /\ UNCHANGED <<calls, ret, appended, flushed, crashed, decoded>>

\* WAL::from_dir, line 45: WAL::from_path fails, the file is passed over.
FromDirOpenFails ==
    /\ pc = "replay" /\ file_idx <= Len(wal_files) /\ reader = None
    /\ skipped' = skipped \cup {wal_file}
    /\ failed' = "open"
    /\ file_idx' = file_idx + 1
    /\ UNCHANGED <<table, dir, clock, wal, pc, wal_files, reader, crash0, runs, prev, dir0>>
    /\ UNCHANGED <<calls, ret, appended, flushed, crashed, decoded>>

\* WAL::into_iter, line 122: WALIterator::new fails and unwrap panics.
FromDirIterFails ==
    /\ pc = "replay" /\ file_idx <= Len(wal_files) /\ reader = None
    /\ pc' = "panic"
    /\ failed' = "iter"
    /\ wal' = None
    /\ UNCHANGED <<table, dir, clock, wal_files, file_idx, reader, skipped, crash0, runs, prev, dir0>>
    /\ UNCHANGED <<calls, ret, appended, flushed, crashed, decoded>>

\* WAL::from_dir, lines 46-58: one turn of the loop over the entries of the
\* old file: the entry is applied to the MemTable and appended to the new
\* WAL; at the end of the sequence the loop over the files moves on.
FromDirReplay ==
    /\ pc = "replay" /\ file_idx <= Len(wal_files) /\ is_some(reader)
    /\ LET r == WalNext(dir[wal_file], unwrap(reader))
           entry == unwrap(r.entry)
       IN IF ~is_some(r.entry)
          THEN /\ file_idx' = file_idx + 1
               /\ reader' = None
               /\ UNCHANGED <<table, wal>>
          ELSE /\ reader' = Some(r.pos)
               /\ file_idx' = file_idx
               /\ IF entry.deleted
                  THEN /\ table' = MemDelete(table, entry.key, entry.timestamp)
                       /\ wal' = Some(wal_delete(unwrap(wal), entry.key, entry.timestamp))
                  ELSE /\ table' = MemSet(table, entry.key, unwrap(entry.value),
                                          entry.timestamp)
                       /\ wal' = Some(wal_set(unwrap(wal), entry.key,
                                              unwrap(entry.value), entry.timestamp))
    /\ UNCHANGED <<dir, clock, pc, wal_files, skipped, failed, crash0, runs, prev, dir0>>
    /\ UNCHANGED <<calls, ret, appended, flushed, crashed, decoded>>

\* WAL::from_dir, lines 49 and 54-56: the append to the new WAL fails (its
\* BufWriter could not write its buffer out) and `?` returns the error, after
\* the MemTable took the entry.  The dropped BufWriter tries once more to
\* write its buffer out: all of it reaches the file, or none.
FromDirAppendFails(n) ==
    /\ pc = "replay" /\ file_idx <= Len(wal_files) /\ is_some(reader)
    /\ n \in {0, Len(unwrap(wal).file)}
    /\ LET r == WalNext(dir[wal_file], unwrap(reader))
           entry == unwrap(r.entry)
       IN /\ is_some(r.entry)
          /\ table' = IF entry.deleted
                      THEN MemDelete(table, entry.key, entry.timestamp)
                      ELSE MemSet(table, entry.key, unwrap(entry.value),
                                  entry.timestamp)
    /\ dir' = FileWrite(dir, unwrap(wal), n)
    /\ wal' = None
    /\ pc' = "err"
    /\ failed' = "append"
    /\ UNCHANGED <<clock, wal_files, file_idx, reader, skipped, crash0, runs, prev, dir0>>
    /\ UNCHANGED <<calls, ret, appended, flushed, crashed, decoded>>

\* The new WAL's BufWriter fills up between two entries and writes its
\* buffer out.
FromDirSpill ==
    /\ pc = "replay" /\ is_some(reader)
    /\ unwrap(wal).file # <<>>
    /\ dir' = FileWrite(dir, unwrap(wal), Len(unwrap(wal).file))
    /\ wal' = Some(BufDrain(unwrap(wal), Len(unwrap(wal).file)))
    /\ UNCHANGED <<table, clock, pc, wal_files, file_idx, reader, skipped, failed, crash0, runs, prev, dir0>>
    /\ UNCHANGED <<calls, ret, appended, flushed, crashed, decoded>>

\* A from_dir that goes on to delete the old files without flushing.
FromDirFlush_skipped ==
    /\ pc = "replay" /\ file_idx > Len(wal_files)
    /\ pc' = "remove"
    /\ file_idx' = 1
    /\ UNCHANGED <<table, dir, wal, clock, wal_files, reader, skipped, failed, crash0, runs, prev, dir0>>
    /\ UNCHANGED <<calls, ret, appended, flushed, crashed, decoded>>

\* WAL::from_dir, line 61: every old file was replayed and flush succeeds.
FromDirFlush ==
    /\ pc = "replay" /\ file_idx > Len(wal_files)
    /\ dir' = FileWrite(dir, unwrap(wal), Len(unwrap(wal).file))
    /\ wal' = Some(BufDrain(unwrap(wal), Len(unwrap(wal).file)))
    /\ pc' = "remove"
    /\ file_idx' = 1
    /\ UNCHANGED <<table, clock, wal_files, reader, skipped, failed, crash0, runs, prev, dir0>>
    /\ UNCHANGED <<calls, ret, appended, flushed, crashed, decoded>>

\* A from_dir that goes on to delete the old files after a flush that failed.
FromDirFlushFails_ignored ==
    /\ pc = "replay" /\ file_idx > Len(wal_files)
    /\ pc' = "remove"
    /\ file_idx' = 1
    /\ wal' = Some(BufDrain(unwrap(wal), Len(unwrap(wal).file)))
    /\ failed' = "flush"
    /\ UNCHANGED <<table, dir, clock, wal_files, reader, skipped, crash0, runs, prev, dir0>>
    /\ UNCHANGED <<calls, ret, appended, flushed, crashed, decoded>>

\* WAL::from_dir, line 61: flush fails and unwrap panics.
FromDirFlushFails ==
    /\ pc = "replay" /\ file_idx > Len(wal_files)
    /\ pc' = "panic"
    /\ failed' = "flush"
    /\ wal' = None
    /\ UNCHANGED <<table, dir, clock, wal_files, file_idx, reader, skipped, crash0, runs, prev, dir0>>
    /\ UNCHANGED <<calls, ret, appended, flushed, crashed, decoded>>

\* WAL::from_dir, line 62: the next old file is deleted.
FromDirRemove ==
    /\ pc = "remove" /\ file_idx <= Len(wal_files)
    /\ dir' = remove_file(dir, wal_file)
    /\ file_idx' = file_idx + 1
    /\ UNCHANGED <<table, clock, wal, pc, wal_files, reader, skipped, failed, crash0, runs, prev, dir0>>
    /\ UNCHANGED <<calls, ret, appended, flushed, crashed, decoded>>

\* WAL::from_dir, line 62: remove_file fails and unwrap panics.
FromDirRemoveFails ==
    /\ pc = "remove" /\ file_idx <= Len(wal_files)
    /\ pc' = "panic"
    /\ failed' = "remove"
    /\ wal' = None
    /\ UNCHANGED <<table, dir, clock, wal_files, file_idx, reader, skipped, crash0, runs, prev, dir0>>
    /\ UNCHANGED <<calls, ret, appended, flushed, crashed, decoded>>

\* WAL::from_dir, line 64: Ok((new_wal, new_mem_table))
FromDirReturn ==
    /\ pc = "remove" /\ file_idx > Len(wal_files)
    /\ pc' = "ok"
    /\ UNCHANGED <<table, dir, clock, wal, wal_files, file_idx, reader, skipped, failed, crash0, runs, prev, dir0>>
    /\ UNCHANGED <<calls, ret, appended, flushed, crashed, decoded>>

\* How much of the new WAL's buffer can have reached the file when the
\* process dies: nothing, all of it, or a piece that ends inside a record.
CrashCuts(buf) ==
    {0, Len(buf)} \cup (IF Len(buf) > TornLen THEN {TornLen} ELSE {})

\* The process dies inside WAL::from_dir: the MemTable, the handles and what
\* the BufWriter still held are gone, the directory stays as it is.
FromDirCrash(n) ==
    /\ pc \in {"replay", "remove"} /\ crash0 = None
    /\ n \in CrashCuts(unwrap(wal).file)
    /\ crash0' = Some([dir0 |-> dir0, pc |-> pc,
                       written |-> Len(dir[unwrap(wal).path]) + n])
    /\ dir' = FileWrite(dir, unwrap(wal), n)
    /\ wal' = None
    /\ table' = MemTableNew
    /\ pc' = "crashed"
    /\ wal_files' = <<>>
    /\ file_idx' = 1
    /\ reader' = None
    /\ UNCHANGED <<clock, skipped, failed, runs, prev, dir0>>
    /\ UNCHANGED <<calls, ret, appended, flushed, crashed, decoded>>

\* The sequences of at most n records.
RecordSeqs(n) == UNION { [1..m -> LogRecords] : m \in 0..n }

\* The old log files of a directory: which exist, and the records of each.
OldLogs ==
    UNION { [P -> RecordSeqs(MaxRecords)] :
                P \in SUBSET { WalPath(t) : t \in OldInstants } }

RECURSIVE TotalRecords(_, _)
TotalRecords(logs, paths) ==
    IF paths = {} THEN 0
    ELSE LET p == CHOOSE x \in paths : TRUE
         IN Len(logs[p]) + TotalRecords(logs, paths \ {p})

\* What reached a file from a record whose write was cut short by a crash.
TornTail ==
    SubSeq(RecordEncoding(CHOOSE r \in LogRecords : is_some(r.value) /\ r.key # <<>>
                                                    /\ unwrap(r.value) # <<>>),
           1, TornLen)

\* A directory of old log files written by earlier processes, some of which
\* died while a record was on its way to the file, found by a process that
\* starts after all of them were created.
InitRecover ==
    /\ TableIdle
    /\ RecoveryIdle
    /\ \E logs \in OldLogs : \E torn \in SUBSET (DOMAIN logs) :
          /\ TotalRecords(logs, DOMAIN logs) + Cardinality(torn) <= MaxRecords
          /\ dir = [p \in DOMAIN logs |->
                       LogEncoding(logs[p]) \o (IF p \in torn THEN TornTail ELSE <<>>)]
    /\ clock = StartClock
    /\ wal = None
    /\ appended = <<>>
    /\ flushed = 0
    /\ crashed = FALSE
    /\ decoded = None

NextRecover ==
    \/ FromDirBegin
    \/ FromDirCreateFails
    \/ FromDirOpen
    \/ FromDirOpenFails
    \/ FromDirIterFails
    \/ FromDirReplay
    \/ \E n \in 0..(IF is_some(wal) THEN Len(unwrap(wal).file) ELSE 0) :
          FromDirAppendFails(n)
    \/ FromDirSpill
    \/ FromDirFlush
    \/ FromDirFlushFails
    \/ FromDirRemove
    \/ FromDirRemoveFails
    \/ FromDirReturn

SpecRecover == InitRecover /\ [][NextRecover]_vars

\* WAL::from_dir in a process that may die at any point of the call, and
\* the from_dir of the process started after it.
\* No I/O operation fails.
InitCrash ==
    /\ TableIdle
    /\ RecoveryIdle
    /\ \E logs \in OldLogs : \E torn \in SUBSET (DOMAIN logs) :
          /\ TotalRecords(logs, DOMAIN logs) + Cardinality(torn) <= MaxCrashRecords
          /\ dir = [p \in DOMAIN logs |->
                       LogEncoding(logs[p]) \o (IF p \in torn THEN TornTail ELSE <<>>)]
    /\ clock = StartClock
    /\ wal = None
    /\ appended = <<>>
    /\ flushed = 0
    /\ crashed = FALSE
    /\ decoded = None

NextCrash ==
    \/ FromDirBegin
    \/ FromDirOpen
    \/ FromDirReplay
    \/ FromDirSpill
    \/ FromDirFlush
    \/ FromDirRemove
    \/ FromDirReturn
    \/ \E n \in 0..(IF is_some(wal) THEN Len(unwrap(wal).file) ELSE 0) :
          FromDirCrash(n)

SpecCrash == InitCrash /\ [][NextCrash]_vars

\* WAL::from_path on a log file that exists.
WalFromPath(path) ==
    /\ wal = None /\ path \in DOMAIN dir
    /\ dir' = OpenAppend(dir, path)
    /\ wal' = Some(from_path(path))
    /\ decoded' = None
    /\ UNCHANGED <<clock, appended, flushed, crashed>>
    /\ UNCHANGED <<tableVars, recVars>>

\* A log file of at most one record left by an earlier process, which may
\* have died while a record was on its way to the file.
InitReopen ==
    /\ TableIdle
    /\ RecoveryIdle
    /\ \E rs \in RecordSeqs(1) : \E torn \in BOOLEAN :
          dir = (WalPath(StartClock) :>
                    (LogEncoding(rs) \o (IF torn THEN TornTail ELSE <<>>)))
    /\ clock = StartClock + 1
    /\ wal = None
    /\ appended = <<>>
    /\ flushed = 0
    /\ crashed = FALSE
    /\ decoded = None

\* A process opens the log file that exists and appends to it; the BufWriter
\* writes out a piece of its buffer or all of it.
NextReopen ==
    \/ \E path \in DOMAIN dir : WalFromPath(path)
    \/ \E r \in LogRecords :
          /\ ~r.deleted
          /\ WalSet(r.key, unwrap(r.value), r.timestamp)
    \/ \E r \in LogRecords :
          /\ r.deleted
          /\ WalDelete(r.key, r.timestamp)
    \/ WalFlush
    \/ \E n \in 1..(IF is_some(wal) THEN Len(unwrap(wal).file) ELSE 0) :
          /\ n \in CrashCuts(unwrap(wal).file)
          /\ WalSpill(n)
    \/ WalCrash

SpecReopen == InitReopen /\ [][NextReopen]_vars

-----------------------------------------------------------------------------
(* Properties of the MemTable                                              *)

\* a < b in the byte-wise (lexicographic) order of byte strings, stated
\* without recursion: they first differ at i, where a has ended or holds
\* the smaller byte.
LexLt(a, b) ==
    \E i \in 1..Len(b) :
        /\ \A j \in 1..(i - 1) : j <= Len(a) /\ a[j] = b[j]
        /\ (i > Len(a) \/ a[i] < b[i])

\* The bytes one record accounts for: key, value if any, timestamp (16)
\* and tombstone flag (1).
RecordBytes(e) ==
    Len(e.key) + (IF is_some(e.value) THEN Len(unwrap(e.value)) ELSE 0) + 17

RECURSIVE SumRecordBytes(_)
SumRecordBytes(es) ==
    IF es = <<>> THEN 0 ELSE RecordBytes(Head(es)) + SumRecordBytes(Tail(es))

\* The indices of the calls made on key k.
CallsOn(k) == { i \in 1..Len(calls) : calls[i].key = k }

\* The most recent call made on key k.
LastCallOn(k) ==
    calls[CHOOSE i \in CallsOn(k) : \A j \in CallsOn(k) : j <= i]

\* C1: after any sequence of set and delete calls on a table that starts
\* empty, size() is the sum over the records in the table of
\* key.len + value.len (0 for a tombstone) + 17.
C1_SizeIsSumOfRecords == MemSize(table) = SumRecordBytes(table.entries)

\* C6: get(k) reports absence exactly when no set or delete was applied to
\* k, and otherwise returns the record written by the most recent call on k
\* (a tombstone after a delete), whatever the calls' timestamps.
C6_GetReturnsLastCall ==
    /\ \A k \in Keys :
          MemGet(table, k) =
              IF CallsOn(k) = {} THEN None ELSE Some(LastCallOn(k))
    /\ ret.op = "get" =>
          ret.entry =
              IF CallsOn(ret.key) = {} THEN None ELSE Some(LastCallOn(ret.key))

\* C6 witness: get returned a tombstone for a key whose delete carried a
\* smaller timestamp than the set before it.
C6_Witness ==
    /\ ret.op = "get"
    /\ is_some(ret.entry)
    /\ unwrap(ret.entry).deleted
    /\ unwrap(ret.entry).value = None
    /\ \E i \in CallsOn(ret.key) :
          /\ ~calls[i].deleted
          /\ calls[i].timestamp > unwrap(ret.entry).timestamp

\* C7: after every set or delete the records are strictly ascending by
\* byte-wise key comparison, so no two records share a key.
C7_StrictlyAscending ==
    \A i \in 1..(Len(table.entries) - 1) :
        LexLt(table.entries[i].key, table.entries[i + 1].key)

\* C7 witness: the last call put a new key in front of a key that the two
\* calls before it had written.
C7_Witness ==
    /\ Len(calls) = 3
    /\ Len(table.entries) = 2
    /\ calls[3].key = table.entries[1].key
    /\ CallsOn(calls[3].key) = {3}
    /\ calls[1].key = calls[2].key

-----------------------------------------------------------------------------
(* Properties of one WAL and its decoder                                   *)

IsPrefix(a, b) == Len(a) <= Len(b) /\ SubSeq(b, 1, Len(a)) = a

\* bytes is the encoding of the first n records of rs followed by a proper
\* prefix of the encoding of record n + 1.
TornAfter(bytes, rs, n) ==
    /\ n < Len(rs)
    /\ IsPrefix(LogEncoding(SubSeq(rs, 1, n)), bytes)
    /\ IsPrefix(bytes, LogEncoding(SubSeq(rs, 1, n + 1)))
    /\ bytes # LogEncoding(SubSeq(rs, 1, n + 1))

\* C3: once flush has returned success, a decoder over the file after a
\* crash at any later moment yields the records appended before that flush,
\* in order, followed only by records appended after it; only records
\* appended after the last successful flush can be missing.
C3_FlushedRecordsSurviveCrash ==
    crashed =>
        /\ \A p \in DOMAIN dir :
              /\ IsPrefix(SubSeq(appended, 1, flushed), IterCollect(dir[p], 0))
              /\ IsPrefix(IterCollect(dir[p], 0), appended)
        /\ is_some(decoded) =>
              /\ IsPrefix(SubSeq(appended, 1, flushed), unwrap(decoded))
              /\ IsPrefix(unwrap(decoded), appended)

\* C3 witness: a crash after one flushed record and one record appended
\* after the flush, part of which had reached the file; the decoder yields
\* the flushed record alone.
C3_Witness ==
    /\ crashed
    /\ flushed = 1
    /\ Len(appended) = 2
    /\ \E p \in DOMAIN dir : Len(dir[p]) > Len(RecordEncoding(appended[1]))
    /\ decoded = Some(<<appended[1]>>)

\* C4: the decoder over a fresh log to which a sequence of set and delete
\* records was written and flushed yields exactly one record per operation,
\* in order, with the same key, timestamp, deleted flag and value (absent
\* for a delete), and then reports the end of the sequence.
C4_RoundTrip ==
    flushed = Len(appended) =>
        /\ \A p \in DOMAIN dir : IterCollect(dir[p], 0) = appended
        /\ is_some(decoded) => unwrap(decoded) = appended

\* C4 witness: a set with an empty value and a delete were written, flushed
\* and read back.
C4_Witness ==
    /\ flushed = 2
    /\ Len(appended) = 2
    /\ appended[1].value = Some(<<>>)
    /\ appended[2].deleted
    /\ appended[2].timestamp > 255
    /\ decoded = Some(appended)

\* C5: over a file that holds n complete records followed by a proper
\* prefix of one more record, cut at any byte, the decoder yields exactly
\* the n complete records in order and then reports the end of the sequence.
C5_TornTailIsEndOfSequence ==
    \A p \in DOMAIN dir : \A n \in 0..Len(appended) :
        TornAfter(dir[p], appended, n) =>
            /\ IterCollect(dir[p], 0) = SubSeq(appended, 1, n)
            /\ is_some(decoded) => unwrap(decoded) = SubSeq(appended, 1, n)

\* C5 witness: the file ends inside the timestamp of its second record and
\* the decoder yielded the first record only.
C5_Witness ==
    /\ crashed
    /\ Len(appended) = 2
    /\ \E p \in DOMAIN dir :
          /\ TornAfter(dir[p], appended, 1)
          /\ Len(dir[p]) = Len(LogEncoding(appended)) - 3
    /\ decoded = Some(<<appended[1]>>)

-----------------------------------------------------------------------------
(* Properties of WAL::from_dir                                             *)

\* The paths in S in ascending file name order (byte-wise, by LexLt).
RECURSIVE InNameOrder(_)
InNameOrder(S) ==
    IF S = {} THEN <<>>
    ELSE LET first == CHOOSE x \in S : \A y \in S \ {x} : LexLt(x, y)
         IN <<first>> \o InNameOrder(S \ {first})

\* The records of the files of directory d named in paths, file after file.
RECURSIVE RecordsOf(_, _)
RecordsOf(d, paths) ==
    IF paths = <<>> THEN <<>>
    ELSE IterCollect(d[Head(paths)], 0) \o RecordsOf(d, Tail(paths))

\* Every record of every log file of directory d: files in ascending file
\* name order, records in their order in the file.
AllRecords(d) == RecordsOf(d, InNameOrder(DOMAIN d))

\* The table obtained from mt by applying the records rs in order.
RECURSIVE Replay(_, _)
Replay(mt, rs) ==
    IF rs = <<>> THEN mt
    ELSE Replay(IF Head(rs).deleted
                THEN MemDelete(mt, Head(rs).key, Head(rs).timestamp)
                ELSE MemSet(mt, Head(rs).key, unwrap(Head(rs).value),
                            Head(rs).timestamp),
                Tail(rs))

\* The last record of rs written for key k, if any.
LastRecordFor(rs, k) ==
    LET on == { i \in 1..Len(rs) : rs[i].key = k }
    IN IF on = {} THEN None
       ELSE Some(rs[CHOOSE i \in on : \A j \in on : j <= i])

\* The keys written by the records rs.
KeysOf(rs) == { rs[i].key : i \in 1..Len(rs) }

\* from_dir returned Ok and every old file could be opened.
Recovered == pc = "ok" /\ skipped = {}

\* C2: from_dir returns the table obtained by starting empty and applying
\* every record of every old file, files in ascending file name order and
\* records in file order; each key's record is the last one written for it
\* in that order, whatever the timestamps.  (Every old file opened.)
C2_TableIsReplayInNameOrder ==
    Recovered =>
        /\ table = Replay(MemTableNew, AllRecords(dir0))
        /\ \A i \in 1..Len(table.entries) :
              Some(table.entries[i]) =
                  LastRecordFor(AllRecords(dir0), table.entries[i].key)
        /\ { table.entries[i].key : i \in 1..Len(table.entries) }
               = KeysOf(AllRecords(dir0))

\* C2 witness: two old files wrote the same key; the file that sorts second
\* by name holds the smaller timestamp and its record is the one recovered.
C2_Witness ==
    /\ Recovered /\ runs = 1
    /\ Len(wal_files) = 2
    /\ Len(table.entries) = 1
    /\ LET a == IterCollect(dir0[wal_files[1]], 0)
           b == IterCollect(dir0[wal_files[2]], 0)
       IN /\ Len(a) = 1 /\ Len(b) = 1
          /\ a[1].key = b[1].key
          /\ a[1].timestamp > b[1].timestamp
          /\ table.entries[1] = b[1]

\* C8: when from_dir returns Ok the directory holds exactly one log file,
\* the new one the returned handle owns, and every log file found by the
\* call is gone; for a directory without log files the table is empty and
\* the new file has length zero.
C8_OnlyTheNewLogRemains ==
    pc = "ok" =>
        /\ DOMAIN dir = {unwrap(wal).path}
        /\ unwrap(wal).path \notin DOMAIN dir0
        /\ DOMAIN dir \cap DOMAIN dir0 = {}
        /\ DOMAIN dir0 = {} =>
              /\ table = MemTableNew
              /\ dir[unwrap(wal).path] = <<>>

\* C8 witness: from_dir returned Ok in a directory that held two old files
\* with records.
C8_Witness ==
    /\ pc = "ok" /\ runs = 1
    /\ Cardinality(DOMAIN dir0) = 2
    /\ \A p \in DOMAIN dir0 : dir0[p] # <<>>
    /\ Cardinality(DOMAIN dir) = 1

\* C9: after a successful from_dir the new log holds every record of every
\* old file, records overwritten or deleted later included, unchanged, old
\* files in ascending file name order and records in file order, and
\* nothing else.  (Every old file opened.)
C9_NewLogHoldsAllRecords ==
    Recovered =>
        /\ IterCollect(dir[unwrap(wal).path], 0) = AllRecords(dir0)
        /\ dir[unwrap(wal).path] = LogEncoding(AllRecords(dir0))

\* C9 witness: the new log holds a set of a key and then its delete, read
\* from two old files of which the first ends in a record cut short.
C9_Witness ==
    /\ Recovered /\ runs = 1
    /\ Len(wal_files) = 2
    /\ dir0[wal_files[1]] # LogEncoding(IterCollect(dir0[wal_files[1]], 0))
    /\ IterCollect(dir0[wal_files[1]], 0) # <<>>
    /\ LET rs == IterCollect(dir[unwrap(wal).path], 0)
       IN /\ Len(rs) = 2
          /\ rs[1].key = rs[2].key
          /\ ~rs[1].deleted /\ rs[2].deleted

\* C10: a second from_dir on the directory a successful from_dir left
\* returns a table with the same records and the same size, and leaves
\* exactly one log file, with the same sequence of records.
C10_SecondRecoveryIsIdentical ==
    (Recovered /\ is_some(prev)) =>
        /\ table.entries = unwrap(prev).table.entries
        /\ MemSize(table) = MemSize(unwrap(prev).table)
        /\ DOMAIN dir = {unwrap(wal).path}
        /\ IterCollect(dir[unwrap(wal).path], 0)
              = IterCollect(unwrap(prev).dir[unwrap(prev).path], 0)

\* C10 witness: the second from_dir returned a table that holds a tombstone
\* and a record with an empty value.
C10_Witness ==
    /\ Recovered /\ runs = 2 /\ is_some(prev)
    /\ Len(table.entries) = 2
    /\ table.entries[1].value = Some(<<>>)
    /\ table.entries[2].deleted
    /\ unwrap(wal).path # unwrap(prev).path

\* ------------------------------------------------------------------
\* scan, delete and len
\* ------------------------------------------------------------------

\* The indices of the records of the table that hold the value v.
Holding(v) ==
    { i \in 1..Len(table.entries) : table.entries[i].value = Some(v) }

\* C13: scan(probe) returns the record with the smallest key among the
\* records whose value equals the probe byte for byte, reports absence if
\* there is none, and never returns a tombstone, the empty probe included.
C13_ScanReturnsSmallestMatch ==
    ret.op = "scan" =>
        IF Holding(ret.value) = {}
        THEN ret.entry = None
        ELSE /\ is_some(ret.entry)
             /\ ~unwrap(ret.entry).deleted
             /\ unwrap(ret.entry).value = Some(ret.value)
             /\ \E i \in Holding(ret.value) :
                   /\ unwrap(ret.entry) = table.entries[i]
                   /\ \A j \in Holding(ret.value) \ {i} :
                         LexLt(table.entries[i].key, table.entries[j].key)

\* C13 witness: a scan for the empty value, on a table whose smallest key is
\* a tombstone and whose other two records hold the empty value, returned
\* the smaller of the two.
C13_Witness ==
    /\ ret.op = "scan" /\ ret.value = <<>>
    /\ Len(table.entries) = 3
    /\ table.entries[1].deleted
    /\ Holding(<<>>) = {2, 3}
    /\ ret.entry = Some(table.entries[2])

\* C16: delete(k, t) on a key whose record is a tombstone leaves size() and
\* len() unchanged and leaves a tombstone with timestamp t; on a key whose
\* record holds a value it reduces size() by exactly the value's length and
\* leaves len() unchanged.
C16_DeleteOnExistingKey ==
    [][\A k \in Keys, t \in Timestamps :
          (Delete(k, t) /\ is_some(MemGet(table, k))) =>
              LET cur == unwrap(MemGet(table, k))
              IN /\ ret'.op = "delete"
                 /\ MemLen(table') = MemLen(table)
                 /\ MemGet(table', k) =
                        Some([key |-> k, value |-> None,
                              timestamp |-> t, deleted |-> TRUE])
                 /\ IF is_some(cur.value)
                    THEN /\ MemSize(table') = MemSize(table) - Len(unwrap(cur.value))
                         /\ (MemSize(table) >= 0 => MemSize(table') >= 0)
                    ELSE MemSize(table') = MemSize(table)]_vars

\* The keys passed to set or delete so far.
KeysCalled == { calls[i].key : i \in 1..Len(calls) }

\* C17: len() is the number of distinct keys passed to set or delete: a set
\* or delete on a key not in the table raises len() by 1, one on a key in
\* the table leaves it unchanged, and len() never decreases.
C17_LenCountsDistinctKeys ==
    /\ [](MemLen(table) = Cardinality(KeysCalled))
    /\ [][/\ MemLen(table') >= MemLen(table)
          /\ calls' # calls =>
                MemLen(table') =
                    MemLen(table)
                        + (IF MemGet(table, calls'[Len(calls')].key) = None
                           THEN 1 ELSE 0)]_vars

\* C17 witness: three calls on two keys, the delete of a key never written
\* among them, left two records.
C17_Witness ==
    /\ Len(calls) = 3
    /\ MemLen(table) = 2
    /\ \E i \in 1..Len(calls) :
          /\ calls[i].deleted
          /\ \A j \in 1..(i - 1) : calls[j].key # calls[i].key

\* ------------------------------------------------------------------
\* The byte layout of the log
\* ------------------------------------------------------------------

\* Byte i (counted from 1) of the little-endian form of n, for n < 2^32.
LeByte(n, i) == IF i > 4 THEN 0 ELSE (n \div (256 ^ (i - 1))) % 256

\* The little-endian form of n in `width` bytes.
Le(n, width) == [i \in 1..width |-> LeByte(n, i)]

\* The bytes of one record as the layout gives them.
Layout(e) ==
    IF e.deleted
    THEN Le(Len(e.key), 8) \o <<1>> \o e.key \o Le(e.timestamp, 16)
    ELSE Le(Len(e.key), 8) \o <<0>> \o Le(Len(unwrap(e.value)), 8)
             \o e.key \o unwrap(e.value) \o Le(e.timestamp, 16)

RECURSIVE Layouts(_)
Layouts(es) == IF es = <<>> THEN <<>> ELSE Layout(Head(es)) \o Layouts(Tail(es))

\* The number of bytes the calls es append.
RECURSIVE LayoutBytes(_)
LayoutBytes(es) ==
    IF es = <<>> THEN 0
    ELSE (IF Head(es).deleted
          THEN 8 + 1 + Len(Head(es).key) + 16
          ELSE 8 + 1 + 8 + Len(Head(es).key) + Len(unwrap(Head(es).value)) + 16)
         + LayoutBytes(Tail(es))

\* C15: set appends key_len (8 bytes LE), tombstone byte 0, value_len
\* (8 bytes LE), key, value, timestamp (16 bytes LE); delete appends key_len,
\* tombstone byte 1, key, timestamp; nothing else is appended, and a flushed
\* file is the concatenation of these encodings in call order.
C15_LayoutOnDisk ==
    is_some(wal) =>
        LET path == unwrap(wal).path
            written == dir[path] \o unwrap(wal).file
        IN /\ written = Layouts(appended)
           /\ Len(written) = LayoutBytes(appended)
           /\ flushed = Len(appended) => dir[path] = Layouts(appended)

\* C15 witness: a flushed file that holds a set and a delete, the set with a
\* timestamp of more than one byte.
C15_Witness ==
    /\ is_some(wal)
    /\ Len(appended) = 2 /\ flushed = 2
    /\ ~appended[1].deleted /\ appended[1].timestamp > 255
    /\ appended[2].deleted
    /\ Len(dir[unwrap(wal).path]) = LayoutBytes(appended)

\* ------------------------------------------------------------------
\* A crash inside from_dir
\* ------------------------------------------------------------------

\* C19: if the process dies inside from_dir and from_dir is run again on the
\* directory, the second run returns the table an uninterrupted first run
\* would have returned: the records of the replay of what the first run
\* found.
C19_RerunAfterCrashReturnsSameTable ==
    (pc = "ok" /\ is_some(crash0)) =>
        table.entries = Replay(MemTableNew, AllRecords(unwrap(crash0).dir0)).entries

\* ------------------------------------------------------------------
\* Failures inside from_dir
\* ------------------------------------------------------------------

\* The old files of the running call that were opened, in replay order.
Opened == SelectSeq(wal_files, LAMBDA p : p \notin skipped)

\* C11: an old log file that cannot be opened or read is skipped: the call
\* neither aborts nor returns a failure because of it, and when the call
\* returns, the table and the new log hold the records of the other old
\* files, replayed in order, and none of the skipped file's.
C11_UnreadableFileIsSkipped ==
    /\ failed \in {"open", "iter"} => pc \notin {"panic", "err"}
    /\ pc = "ok" =>
          /\ table = Replay(MemTableNew, RecordsOf(dir0, Opened))
          /\ IterCollect(dir[unwrap(wal).path], 0) = RecordsOf(dir0, Opened)

\* C12: every I/O failure inside from_dir (creating the new log, appending
\* to it, flushing it, deleting an old file) and inside into_iter (opening
\* the path for reading) ends the call with a failure result, never with an
\* abort of the process.
C12_FailuresAreReturned ==
    failed \in {"create", "append", "flush", "remove", "iter"} => pc = "err"

\* The instants at which the log files of a run were or are created.
Instants == OldInstants \cup (StartClock..(StartClock + MaxRuns))

\* C14: of two logs created at instants t1 < t2 the name of the first sorts
\* strictly before the name of the second in the sort from_dir applies, so
\* from_dir replays the files in creation order.
C14_NameOrderIsCreationOrder ==
    /\ \A t1, t2 \in Instants :
          (t1 < t2 /\ {WalPath(t1), WalPath(t2)} \subseteq DOMAIN dir) =>
              sort({WalPath(t1), WalPath(t2)}) = <<WalPath(t1), WalPath(t2)>>
    /\ \A t1, t2 \in Instants :
          \A i, j \in 1..Len(wal_files) :
              (wal_files[i] = WalPath(t1) /\ wal_files[j] = WalPath(t2) /\ t1 < t2)
                  => i < j

\* The records the files now in the directory decode to.
OnDisk ==
    UNION { { IterCollect(dir[q], 0)[i] : i \in 1..Len(IterCollect(dir[q], 0)) } :
                q \in DOMAIN dir }

\* C20: no old file is deleted before every record was re-appended to the
\* new log and the flush succeeded; so at every point of the call each
\* record of the old files (those the call could open) is in a file on
\* disk, in its old file as the call found it or in another file, and when
\* the call returns a failure every old file is still there with its
\* content unchanged.
C20_NoDeletionBeforeFlush ==
    LET old == RecordsOf(dir0, Opened)
    IN /\ (\E p \in DOMAIN dir0 : p \notin DOMAIN dir) =>
             /\ pc \in {"remove", "ok", "panic"}
             /\ \E q \in (DOMAIN dir) \ (DOMAIN dir0) :
                   IterCollect(dir[q], 0) = old
       /\ pc \in {"replay", "remove", "ok", "panic", "err"} =>
             \A p \in (DOMAIN dir0) \ skipped :
                 \/ p \in DOMAIN dir /\ dir[p] = dir0[p]
                 \/ LET rs == IterCollect(dir0[p], 0)
                    IN { rs[i] : i \in 1..Len(rs) } \subseteq OnDisk
       /\ pc \in {"replay", "err"} =>
             \A p \in DOMAIN dir0 : p \in DOMAIN dir /\ dir[p] = dir0[p]

\* C20 witness: the first of two old files is deleted, the second still
\* there, and the new log is the one file that holds the first file's
\* records.
C20_Witness ==
    /\ pc = "remove" /\ Len(wal_files) = 2 /\ file_idx = 2
    /\ wal_files[1] \notin DOMAIN dir
    /\ wal_files[2] \in DOMAIN dir
    /\ skipped = {}
    /\ IterCollect(dir0[wal_files[1]], 0) # <<>>
    /\ IterCollect(dir0[wal_files[2]], 0) # <<>>

\* ------------------------------------------------------------------
\* Append-only files
\* ------------------------------------------------------------------

\* C18: a log file only ever grows at its end: across every step the content
\* before is a prefix of the content after.  WAL::from_path on a file that
\* holds records leaves its bytes as they are, and what is appended through
\* the new handle follows them.
C18_FilesGrowAtTheEnd ==
    [][/\ \A p \in (DOMAIN dir) \cap (DOMAIN dir') : IsPrefix(dir[p], dir'[p])
       /\ \A p \in DOMAIN dir : WalFromPath(p) => dir' = dir
       /\ \A p \in (DOMAIN dir) \cap (DOMAIN dir') :
             dir'[p] # dir[p] =>
                 /\ is_some(wal) /\ unwrap(wal).path = p
                 /\ \E n \in 1..Len(unwrap(wal).file) :
                       dir'[p] = dir[p] \o SubSeq(unwrap(wal).file, 1, n)]_vars

\* C18 witness: the file holds the record it held when it was opened,
\* followed by the record appended and flushed through the new handle.
C18_Witness ==
    /\ is_some(wal)
    /\ Len(appended) = 1 /\ flushed = 1
    /\ Len(IterCollect(dir[unwrap(wal).path], 0)) = 2
    /\ IterCollect(dir[unwrap(wal).path], 0)[2] = appended[1]
    /\ dir[unwrap(wal).path] = LogEncoding(IterCollect(dir[unwrap(wal).path], 0))

\* ------------------------------------------------------------------
\* The size counter's arithmetic, and what the calls leave alone
\* ------------------------------------------------------------------

\* C21: no subtraction on the size counter underflows: whenever set would
\* replace a longer value by a shorter one, or delete would remove a value,
\* the counter is at least the amount subtracted; size() is at least
\* 17 * len(), and no call aborts on arithmetic.
C21_SizeNeverUnderflows ==
    /\ \A k \in Keys, v \in Values : ~MemSetUnderflows(table, k, v)
    /\ \A k \in Keys : ~MemDeleteUnderflows(table, k)
    /\ ret.op # "panic"
    /\ (MemSize(table) < 0 \/ MemSize(table) >= 17 * MemLen(table))

\* The records of the entries es for keys other than k, in their order.
Others(es, k) == SelectSeq(es, LAMBDA e : e.key # k)

\* C22: set(k, ...) and delete(k, ...) leave the record of every key other
\* than k as it was, in key, value, timestamp and deleted flag, and keep the
\* order of those records; get, scan, len and size leave the whole table,
\* records and size counter, as it was.
C22_FrameConditions ==
    [][/\ calls' # calls =>
             Others(table'.entries, calls'[Len(calls')].key)
                 = Others(table.entries, calls'[Len(calls')].key)
       /\ ret'.op \in {"get", "scan", "len", "size"} => table' = table]_vars

\* C22 witness: the third call wrote the key that sorts between the two keys
\* already in the table, and size was then asked for.
C22_Witness ==
    /\ ret.op = "size"
    /\ Len(calls) = 3 /\ MemLen(table) = 3
    /\ calls[3].key = table.entries[2].key

====
